---- MODULE Spec2Model ----
(***************************************************************************)
(* The simple prediction server of allennlp_server/commands/              *)
(* server_simple.py: make_app builds a Flask application with four routes  *)
(* (index, predict, predict_batch, static_proxy) and one error handler;    *)
(* serve loads the predictor, builds the application and runs it under a   *)
(* WSGI server.                                                            *)
(*                                                                         *)
(* JSON objects are functions from keys to values, JSON text and HTML text *)
(* are sequences of tokens, and file-system paths are sequences of         *)
(* components.  Optional arguments are None or Some(v).                    *)
(***************************************************************************)
EXTENDS Integers, Sequences, FiniteSets, TLC

\* Bounds of the model.
MaxRequests == 2
MaxBatch == 2

\* sys.exit(-1) in make_app; the process status is the code modulo 256.
ExitAbort == -1

None == [none |-> TRUE]
Some(x) == [none |-> FALSE, v |-> x]

(***************************************************************************)
(* The file system the server runs on.  The working directory holds the    *)
(* directory "site" (a front end with index.html and app.js) and the       *)
(* directory "bare" (assets but no index.html); "gone" does not exist.     *)
(***************************************************************************)
Cwd == <<"srv">>

Dirs == {<<"srv", "site">>, <<"srv", "bare">>}

Files == (<<"srv", "site", "index.html">> :> "custom front end")
      @@ (<<"srv", "site", "app.js">> :> "site script")
      @@ (<<"srv", "bare", "app.js">> :> "bare script")

abspath(path) == Cwd \o path

exists(path) == path \in Dirs \/ path \in DOMAIN Files

isfile(path) == path \in DOMAIN Files

join(dir, name) == Append(dir, name)

(***************************************************************************)
(* JSON.  dumps writes an object as the tokens { k : v , k : v } with the   *)
(* members in key order, and loads reads them back; the _list forms do the *)
(* same for an array of objects, [ {...} , {...} ].                        *)
(***************************************************************************)
KeyOrder == <<"a", "message", "r", "s", "status_code">>

RECURSIVE Members(_, _)
Members(obj, keys) ==
    IF keys = << >> THEN << >>
    ELSE <<Head(keys), ":", obj[Head(keys)]>>
         \o (IF Len(keys) > 1 THEN <<",">> ELSE << >>)
         \o Members(obj, Tail(keys))

dumps(obj) ==
    <<"{">> \o Members(obj, SelectSeq(KeyOrder, LAMBDA k : k \in DOMAIN obj))
            \o <<"}">>

loads(text) ==
    LET n == (Len(text) - 1) \div 4
    IN  [k \in {text[4 * j - 2] : j \in 1..n} |->
            text[4 * (CHOOSE j \in 1..n : text[4 * j - 2] = k)]]

RECURSIVE Items(_)
Items(objs) ==
    IF objs = << >> THEN << >>
    ELSE dumps(Head(objs))
         \o (IF Len(objs) > 1 THEN <<",">> ELSE << >>)
         \o Items(Tail(objs))

dumps_list(objs) == <<"[">> \o Items(objs) \o <<"]">>

RECURSIVE ParseItems(_)
ParseItems(text) ==
    IF text = << >> THEN << >>
    ELSE LET close == CHOOSE i \in 1..Len(text) :
                          text[i] = "}" /\ \A j \in 1..(i - 1) : text[j] # "}"
         IN  <<loads(SubSeq(text, 1, close))>>
             \o ParseItems(SubSeq(text, close + 2, Len(text)))

loads_list(text) == ParseItems(SubSeq(text, 2, Len(text) - 1))

(***************************************************************************)
(* Results of calls that may raise.                                        *)
(***************************************************************************)
Return(v) == [raised |-> FALSE, value |-> v, kind |-> ""]

Raise(kind) == [raised |-> TRUE, value |-> << >>, kind |-> kind]

(***************************************************************************)
(* The predictors the server is run with.  "stub" answers {"a": v} with    *)
(* {"r": v}; "picky" adds a member "s" and raises on the value "y".  Both  *)
(* raise on an input without the member "a".                               *)
(***************************************************************************)
Values == {"x", "y"}

Inputs == {"a" :> v : v \in Values}

Predictors == {"stub", "picky"}

predict_json(predictor, data) ==
    IF "a" \notin DOMAIN data
    THEN Raise("KeyError")
    ELSE IF predictor = "picky"
    THEN IF data["a"] = "y"
         THEN Raise("ValueError")
         ELSE Return(("r" :> data["a"]) @@ ("s" :> "logits"))
    ELSE Return("r" :> data["a"])

predict_batch_json(predictor, batch) ==
    IF \E i \in DOMAIN batch : predict_json(predictor, batch[i]).raised
    THEN Raise("ValueError")
    ELSE Return([i \in DOMAIN batch |-> predict_json(predictor, batch[i]).value])

(***************************************************************************)
(* The sanitizers make_app is given.  "drop_r" removes the member "r";     *)
(* "strict" removes the member "s" and raises on a prediction whose "r"    *)
(* is "y".                                                                 *)
(***************************************************************************)
Sanitizers == {"drop_r", "strict"}

Without(obj, key) == [k \in DOMAIN obj \ {key} |-> obj[k]]

call_sanitizer(sanitizer, prediction) ==
    IF sanitizer = "drop_r"
    THEN Return(Without(prediction, "r"))
    ELSE IF "r" \in DOMAIN prediction /\ prediction["r"] = "y"
         THEN Raise("KeyError")
         ELSE Return(Without(prediction, "s"))

(***************************************************************************)
(* The arguments of a run.  entry is "serve" for the command line and      *)
(* "make_app" for a caller that builds the application itself; only the    *)
(* latter can pass a sanitizer.  load_ok says whether the archive loads.   *)
(***************************************************************************)
FieldNames == {"a", "b"}

FieldNameLists ==
    {<< >>} \cup {<<f>> : f \in FieldNames}
            \cup {<<f, g>> : f \in FieldNames, g \in FieldNames}

StaticDirArgs == {None, Some(<<"site">>), Some(<<"bare">>), Some(<<"gone">>)}

Titles == {"AllenNLP Demo", "My Demo"}

VARIABLES
    args,       \* the arguments of the run
    pc,         \* where the process is: start, loaded, built, serving, exited
    app,        \* what the handlers of the built application close over
    exit_code,  \* the status the process exited with
    stdout,     \* the lines printed
    socket,     \* unbound or listening
    log,        \* the lines written to the module's logger
    nreq,       \* the number of requests handled
    posts,      \* the number of POST /predict requests handled
    req,        \* the request handled last
    resp,       \* the response to it
    exc,        \* what its handler raised, "" when it returned
    calls       \* the calls of predictor and sanitizer its handler made

vars == <<args, pc, app, exit_code, stdout, socket, log, nreq, posts, req, resp,
          exc, calls>>

NoApp == [static_dir |-> None, field_names |-> None, title |-> "",
          sanitizer |-> None, predictor |-> ""]

NoRequest == [method |-> "", rule |-> "", path |-> "", body |-> << >>]

NoResponse == [status |-> 0, mimetype |-> "", body |-> << >>]

ArgSets ==
    [entry : {"serve"}, load_ok : BOOLEAN, predictor : Predictors,
     static_dir : StaticDirArgs,
     field_names : {None} \cup {Some(l) : l \in FieldNameLists},
     title : Titles, sanitizer : {None}]
    \cup
    [entry : {"make_app"}, load_ok : {TRUE}, predictor : Predictors,
     static_dir : StaticDirArgs,
     field_names : {None} \cup {Some(l) : l \in FieldNameLists},
     title : Titles, sanitizer : {None} \cup {Some(s) : s \in Sanitizers}]

Init ==
    /\ args \in ArgSets
    /\ pc = "start"
    /\ app = NoApp
    /\ exit_code = 0
    /\ stdout = << >>
    /\ socket = "unbound"
    /\ log = << >>
    /\ nreq = 0
    /\ posts = 0
    /\ req = NoRequest
    /\ resp = NoResponse
    /\ exc = ""
    /\ calls = << >>

(***************************************************************************)
(* make_app up to the creation of the application: the static directory is *)
(* made absolute and must exist, or the process exits; with neither a      *)
(* static directory nor field names a notice is printed.  The result says  *)
(* whether the process exited, what was logged and printed, and what the   *)
(* handlers close over.                                                    *)
(***************************************************************************)
ErrorLine(msg) ==
    [level |-> "ERROR", msg |-> msg, inputs |-> << >>, outputs |-> << >>]

NeitherNotice == "Neither build_dir nor field_names passed. Demo won't render on this port."

\* A make_app that does not look whether the static directory exists.
make_app_unchecked(predictor, field_names, static_dir, sanitizer, title) ==
    LET dir == IF static_dir.none THEN None ELSE Some(abspath(static_dir.v))
    IN  [exited |-> FALSE, code |-> 0, logged |-> << >>,
         printed |-> IF dir.none /\ field_names.none
                     THEN <<NeitherNotice>> ELSE << >>,
         app |-> [static_dir |-> dir, field_names |-> field_names,
                  title |-> title, sanitizer |-> sanitizer,
                  predictor |-> predictor]]

\* A make_app that exits when given neither a static directory nor field
\* names.
make_app_neither_fatal(predictor, field_names, static_dir, sanitizer, title) ==
    LET dir == IF static_dir.none THEN None ELSE Some(abspath(static_dir.v))
    IN  IF (~dir.none /\ ~exists(dir.v)) \/ (dir.none /\ field_names.none)
        THEN [exited |-> TRUE, code |-> ExitAbort,
              logged |-> <<ErrorLine("aborting")>>,
              printed |-> << >>, app |-> NoApp]
        ELSE [exited |-> FALSE, code |-> 0, logged |-> << >>, printed |-> << >>,
              app |-> [static_dir |-> dir, field_names |-> field_names,
                       title |-> title, sanitizer |-> sanitizer,
                       predictor |-> predictor]]

make_app(predictor, field_names, static_dir, sanitizer, title) ==
    LET dir == IF static_dir.none THEN None ELSE Some(abspath(static_dir.v))
    IN  IF ~dir.none /\ ~exists(dir.v)
        THEN [exited |-> TRUE, code |-> ExitAbort,
              logged |-> <<ErrorLine("app directory does not exist, aborting")>>,
              printed |-> << >>, app |-> NoApp]
        ELSE [exited |-> FALSE, code |-> 0, logged |-> << >>,
              printed |-> IF dir.none /\ field_names.none
                          THEN <<NeitherNotice>> ELSE << >>,
              app |-> [static_dir |-> dir, field_names |-> field_names,
                       title |-> title, sanitizer |-> sanitizer,
                       predictor |-> predictor]]

(***************************************************************************)
(* The built-in page: _html fills the page template with the title, the    *)
(* style sheet, one label and one text input per field name, and the       *)
(* quoted field list of the script.  Iterating over no field names at all  *)
(* (None) raises.                                                          *)
(***************************************************************************)
single_input(field_name) ==
    <<"<label for=", "input-" \o field_name, ">", field_name, "</label>",
      "<input type=text id=", "input-" \o field_name, ">">>

RECURSIVE Concat(_)
Concat(seqs) == IF seqs = << >> THEN << >> ELSE Head(seqs) \o Concat(Tail(seqs))

RECURSIVE Joined(_, _)
Joined(sep, strs) ==
    IF strs = << >> THEN << >>
    ELSE IF Len(strs) = 1 THEN <<strs[1]>>
    ELSE <<strs[1], sep>> \o Joined(sep, Tail(strs))

quoted_field_list(field_names) ==
    <<"[">> \o Joined(",", [i \in DOMAIN field_names |-> "'" \o field_names[i] \o "'"])
            \o <<"]">>

page_template(title, css, inputs, qfl) ==
    <<"<title>", title, "</title>", "<style>", css, "</style>",
      "<h2>", title, "</h2>">>
    \o inputs
    \o <<"<button onclick=predict()>", "Predict", "</button>",
         "<div id=output>", "</div>",
         "<script>", "var quotedFieldList =">>
    \o qfl
    \o <<";", "</script>">>

\* An _html that lays the inputs out last field first.
_html_inputs_reversed(title, field_names) ==
    IF field_names.none
    THEN Raise("TypeError")
    ELSE LET n == Len(field_names.v)
         IN  Return(page_template(
                 title, "_CSS",
                 Concat([i \in 1..n |-> single_input(field_names.v[n + 1 - i])]),
                 quoted_field_list(field_names.v)))

_html(title, field_names) ==
    IF field_names.none
    THEN Raise("TypeError")
    ELSE Return(page_template(
             title, "_CSS",
             Concat([i \in DOMAIN field_names.v |-> single_input(field_names.v[i])]),
             quoted_field_list(field_names.v)))

(***************************************************************************)
(* Flask's responses.  Response(body, status) is an HTML response, jsonify *)
(* a JSON response with status 200, send_file the content of a file,       *)
(* send_from_directory the same for a file of a directory, raising         *)
(* NotFound when there is no such file.                                    *)
(***************************************************************************)
Response(body, status) == [status |-> status, mimetype |-> "text/html", body |-> body]

jsonify(obj) ==
    [status |-> 200, mimetype |-> "application/json", body |-> dumps(obj)]

jsonify_list(objs) ==
    [status |-> 200, mimetype |-> "application/json", body |-> dumps_list(objs)]

send_file(path) ==
    IF isfile(path)
    THEN Return([status |-> 200, mimetype |-> "file", body |-> <<Files[path]>>])
    ELSE Raise("FileNotFoundError")

send_from_directory(directory, path) ==
    IF isfile(join(directory, path))
    THEN send_file(join(directory, path))
    ELSE Raise("NotFound")

get_json(request) ==
    IF request.body # << >> /\ Head(request.body) = "["
    THEN loads_list(request.body)
    ELSE loads(request.body)

(***************************************************************************)
(* The application error and its handler.                                  *)
(***************************************************************************)
ServerError(message, status_code) == [message |-> message, status_code |-> status_code]

NoError == ServerError("", 0)

to_dict(error) ==
    ("message" :> error.message) @@ ("status_code" :> ToString(error.status_code))

\* A handler that leaves the response's status as jsonify set it.
handle_invalid_usage_status_unset(error) == jsonify(to_dict(error))

handle_invalid_usage(error) ==
    [jsonify(to_dict(error)) EXCEPT !.status = error.status_code]

(***************************************************************************)
(* What a handler does: it returns a response or raises, and leaves the    *)
(* logger's lines and the calls it made.                                   *)
(***************************************************************************)
Responded(response, lg, made) ==
    [exc |-> "", error |-> NoError, response |-> response, log |-> lg, calls |-> made]

Raised(kind, error, lg, made) ==
    [exc |-> kind, error |-> error, response |-> NoResponse, log |-> lg, calls |-> made]

PredictionLine(data, prediction) ==
    [level |-> "INFO", msg |-> "prediction",
     inputs |-> dumps(data), outputs |-> dumps(prediction)]

\* An index that renders the form whenever field names were given.
index_form_first(a, lg, request) ==
    IF a.static_dir.none \/ ~a.field_names.none
    THEN LET html == _html(a.title, a.field_names)
         IN  IF html.raised
             THEN Raised(html.kind, NoError, lg, << >>)
             ELSE Responded(Response(html.value, 200), lg, << >>)
    ELSE LET f == send_file(join(a.static_dir.v, "index.html"))
         IN  IF f.raised
             THEN Raised(f.kind, NoError, lg, << >>)
             ELSE Responded(f.value, lg, << >>)

index(a, lg, request) ==
    IF ~a.static_dir.none
    THEN LET f == send_file(join(a.static_dir.v, "index.html"))
         IN  IF f.raised
             THEN Raised(f.kind, NoError, lg, << >>)
             ELSE Responded(f.value, lg, << >>)
    ELSE LET html == _html(a.title, a.field_names)
         IN  IF html.raised
             THEN Raised(html.kind, NoError, lg, << >>)
             ELSE Responded(Response(html.value, 200), lg, << >>)

\* A predict that answers with the prediction as the predictor gave it.
predict_post_unsanitized(a, lg, request) ==
    LET data == get_json(request)
        predicted == predict_json(a.predictor, data)
    IN  IF predicted.raised
        THEN Raised(predicted.kind, NoError, lg, <<"predict_json">>)
        ELSE Responded(jsonify(predicted.value),
                       Append(lg, PredictionLine(data, predicted.value)),
                       <<"predict_json">>)

\* A predict that logs the prediction before it is sanitized.
predict_post_logs_raw(a, lg, request) ==
    LET data == get_json(request)
        predicted == predict_json(a.predictor, data)
        sanitized == IF a.sanitizer.none
                     THEN predicted
                     ELSE call_sanitizer(a.sanitizer.v, predicted.value)
        made == IF a.sanitizer.none
                THEN <<"predict_json">>
                ELSE <<"predict_json", "sanitizer">>
    IN  IF predicted.raised
        THEN Raised(predicted.kind, NoError, lg, <<"predict_json">>)
        ELSE IF sanitized.raised
        THEN Raised(sanitized.kind, NoError, Append(lg, PredictionLine(data, predicted.value)),
                    made)
        ELSE Responded(jsonify(sanitized.value),
                       Append(lg, PredictionLine(data, predicted.value)),
                       made)

\* A predict that answers from the last prediction logged, when there is one.
predict_post_cached(a, lg, request) ==
    LET data == get_json(request)
        predicted == predict_json(a.predictor, data)
    IN  IF lg # << >> /\ lg[Len(lg)].level = "INFO"
        THEN Responded(jsonify(loads(lg[Len(lg)].outputs)), lg, << >>)
        ELSE IF predicted.raised
        THEN Raised(predicted.kind, NoError, lg, <<"predict_json">>)
        ELSE Responded(jsonify(predicted.value),
                       Append(lg, PredictionLine(data, predicted.value)),
                       <<"predict_json">>)

\* The body of predict past the OPTIONS test.
predict_post(a, lg, request) ==
    LET data == get_json(request)
        predicted == predict_json(a.predictor, data)
        sanitized == IF a.sanitizer.none
                     THEN predicted
                     ELSE call_sanitizer(a.sanitizer.v, predicted.value)
        made == IF a.sanitizer.none
                THEN <<"predict_json">>
                ELSE <<"predict_json", "sanitizer">>
    IN  IF predicted.raised
        THEN Raised(predicted.kind, NoError, lg, <<"predict_json">>)
        ELSE IF sanitized.raised
        THEN Raised(sanitized.kind, NoError, lg, made)
        ELSE Responded(jsonify(sanitized.value),
                       Append(lg, PredictionLine(data, sanitized.value)),
                       made)

\* A predict whose OPTIONS test never matches.
predict_no_preflight(a, lg, request) == predict_post(a, lg, request)

predict(a, lg, request) ==
    IF request.method = "OPTIONS"
    THEN Responded(Response(<< >>, 200), lg, << >>)
    ELSE predict_post(a, lg, request)

\* The list comprehension of predict_batch: sanitizer(p) for each p in turn,
\* stopping at the first that raises.
SanitizeEach(sanitizer, predictions) ==
    LET each == [i \in DOMAIN predictions |-> call_sanitizer(sanitizer, predictions[i])]
        bad == {i \in DOMAIN predictions : each[i].raised}
        first == CHOOSE i \in bad : \A j \in bad : i <= j
    IN  IF bad = {}
        THEN [raised |-> FALSE, kind |-> "",
              value |-> [i \in DOMAIN predictions |-> each[i].value],
              made |-> [i \in DOMAIN predictions |-> "sanitizer"]]
        ELSE [raised |-> TRUE, kind |-> each[first].kind, value |-> << >>,
              made |-> [i \in 1..first |-> "sanitizer"]]

\* A predict_batch that keeps only the sanitized predictions that are not
\* empty ([sanitizer(p) for p in prediction if sanitizer(p)]).
predict_batch_post_filtering(a, lg, request) ==
    LET data == get_json(request)
        predicted == predict_batch_json(a.predictor, data)
        sanitized == SanitizeEach(a.sanitizer.v, predicted.value)
    IN  IF predicted.raised
        THEN Raised(predicted.kind, NoError, lg, <<"predict_batch_json">>)
        ELSE IF a.sanitizer.none
        THEN Responded(jsonify_list(predicted.value), lg, <<"predict_batch_json">>)
        ELSE IF sanitized.raised
        THEN Raised(sanitized.kind, NoError, lg,
                    <<"predict_batch_json">> \o sanitized.made)
        ELSE Responded(jsonify_list(SelectSeq(sanitized.value,
                                              LAMBDA o : DOMAIN o # {})),
                       lg, <<"predict_batch_json">> \o sanitized.made)

\* A predict_batch that answers with the predictions sanitized before the
\* first one the sanitizer raised on.
predict_batch_post_partial(a, lg, request) ==
    LET data == get_json(request)
        predicted == predict_batch_json(a.predictor, data)
        sanitized == SanitizeEach(a.sanitizer.v, predicted.value)
        done == Len(sanitized.made) - 1
    IN  IF predicted.raised
        THEN Raised(predicted.kind, NoError, lg, <<"predict_batch_json">>)
        ELSE IF a.sanitizer.none
        THEN Responded(jsonify_list(predicted.value), lg, <<"predict_batch_json">>)
        ELSE IF sanitized.raised
        THEN Responded(jsonify_list([i \in 1..done |->
                           call_sanitizer(a.sanitizer.v, predicted.value[i]).value]),
                       lg, <<"predict_batch_json">> \o sanitized.made)
        ELSE Responded(jsonify_list(sanitized.value), lg,
                       <<"predict_batch_json">> \o sanitized.made)

\* The body of predict_batch past the OPTIONS test.
predict_batch_post(a, lg, request) ==
    LET data == get_json(request)
        predicted == predict_batch_json(a.predictor, data)
        sanitized == SanitizeEach(a.sanitizer.v, predicted.value)
    IN  IF predicted.raised
        THEN Raised(predicted.kind, NoError, lg, <<"predict_batch_json">>)
        ELSE IF a.sanitizer.none
        THEN Responded(jsonify_list(predicted.value), lg, <<"predict_batch_json">>)
        ELSE IF sanitized.raised
        THEN Raised(sanitized.kind, NoError, lg,
                    <<"predict_batch_json">> \o sanitized.made)
        ELSE Responded(jsonify_list(sanitized.value), lg,
                       <<"predict_batch_json">> \o sanitized.made)

predict_batch(a, lg, request) ==
    IF request.method = "OPTIONS"
    THEN Responded(Response(<< >>, 200), lg, << >>)
    ELSE predict_batch_post(a, lg, request)

static_proxy(a, lg, request) ==
    IF ~a.static_dir.none
    THEN LET f == send_from_directory(a.static_dir.v, request.path)
         IN  IF f.raised
             THEN Raised(f.kind, NoError, lg, << >>)
             ELSE Responded(f.value, lg, << >>)
    ELSE Raised("ServerError", ServerError("static_dir not specified", 404), lg, << >>)

\* The routes make_app registers.
view_function(a, lg, request) ==
    CASE request.rule = "/" -> index(a, lg, request)
      [] request.rule = "/predict" -> predict(a, lg, request)
      [] request.rule = "/predict_batch" -> predict_batch(a, lg, request)
      [] OTHER -> static_proxy(a, lg, request)

(***************************************************************************)
(* Flask's dispatch of a request: the handler's response; for a            *)
(* ServerError the registered error handler's; for anything else raised    *)
(* the framework's own error page (404 for NotFound, 500 otherwise).       *)
(***************************************************************************)
FrameworkError(status, reason) ==
    [status |-> status, mimetype |-> "text/html",
     body |-> <<"<h1>", reason, "</h1>">>]

dispatch(outcome) ==
    IF outcome.exc = "" THEN outcome.response
    ELSE IF outcome.exc = "ServerError" THEN handle_invalid_usage(outcome.error)
    ELSE IF outcome.exc = "NotFound" THEN FrameworkError(404, "Not Found")
    ELSE FrameworkError(500, "Internal Server Error")

(***************************************************************************)
(* Start-up.  serve loads the predictor, calls make_app (without a         *)
(* sanitizer), then binds the address and serves for ever.  A caller of    *)
(* make_app gets the application back and drives it itself.                *)
(***************************************************************************)
GetPredictor ==
    /\ pc = "start"
    /\ args.entry = "serve"
    /\ IF args.load_ok
       THEN pc' = "loaded" /\ exit_code' = exit_code
       ELSE pc' = "exited" /\ exit_code' = 1
    /\ UNCHANGED <<args, app, stdout, socket, log, nreq, posts, req, resp, exc,
                   calls>>

MakeApp ==
    /\ \/ pc = "loaded" /\ args.entry = "serve"
       \/ pc = "start" /\ args.entry = "make_app"
    /\ LET made == make_app(args.predictor, args.field_names, args.static_dir,
                            args.sanitizer, args.title)
       IN  /\ log' = log \o made.logged
           /\ stdout' = stdout \o made.printed
           /\ app' = made.app
           /\ IF made.exited
              THEN pc' = "exited" /\ exit_code' = made.code % 256
              ELSE pc' = "built" /\ exit_code' = exit_code
    /\ UNCHANGED <<args, socket, nreq, posts, req, resp, exc, calls>>

ServeForever ==
    /\ pc = "built"
    /\ args.entry = "serve"
    /\ socket' = "listening"
    /\ stdout' = Append(stdout, "Model loaded, serving demo")
    /\ pc' = "serving"
    /\ UNCHANGED <<args, app, exit_code, log, nreq, posts, req, resp, exc, calls>>

UseApp ==
    /\ pc = "built"
    /\ args.entry = "make_app"
    /\ pc' = "serving"
    /\ UNCHANGED <<args, app, exit_code, stdout, socket, log, nreq, posts, req,
                   resp, exc, calls>>

(***************************************************************************)
(* Requests.  Each action is one request handled from its arrival to its   *)
(* response.                                                               *)
(***************************************************************************)
Batches == UNION {[1..n -> Inputs] : n \in 0..MaxBatch}

Paths == {"app.js", "missing.js"}

Request(method, rule, path, body) ==
    [method |-> method, rule |-> rule, path |-> path, body |-> body]

IndexRequests == {Request("GET", "/", "", << >>)}

PredictRequests ==
    {Request("POST", "/predict", "", dumps(d)) : d \in Inputs}
    \cup {Request("OPTIONS", "/predict", "", body) :
              body \in {<< >>} \cup {dumps(d) : d \in Inputs}}

PredictBatchRequests ==
    {Request("POST", "/predict_batch", "", dumps_list(b)) : b \in Batches}
    \cup {Request("OPTIONS", "/predict_batch", "", dumps_list(b)) :
              b \in {c \in Batches : Len(c) <= 1}}

StaticRequests == {Request("GET", "/<path:path>", p, << >>) : p \in Paths}

Handle(request) ==
    /\ pc = "serving"
    /\ nreq < MaxRequests
    /\ nreq' = nreq + 1
    /\ posts' = IF request.rule = "/predict" /\ request.method = "POST"
                THEN posts + 1 ELSE posts
    /\ req' = request
    /\ LET outcome == view_function(app, log, request)
       IN  /\ resp' = dispatch(outcome)
           /\ exc' = outcome.exc
           /\ log' = outcome.log
           /\ calls' = outcome.calls
    /\ UNCHANGED <<args, pc, app, exit_code, stdout, socket>>

Index == \E request \in IndexRequests : Handle(request)

Predict == \E request \in PredictRequests : Handle(request)

PredictBatch == \E request \in PredictBatchRequests : Handle(request)

StaticProxy == \E request \in StaticRequests : Handle(request)

Next ==
    \/ GetPredictor
    \/ MakeApp
    \/ ServeForever
    \/ UseApp
    \/ Index
    \/ Predict
    \/ PredictBatch
    \/ StaticProxy

Spec == Init /\ [][Next]_vars

\* serve runs its statements one after the other, so each start-up step that
\* can be taken is taken.
FairSpec ==
    Spec /\ WF_vars(GetPredictor) /\ WF_vars(MakeApp) /\ WF_vars(ServeForever)
         /\ WF_vars(UseApp)

(***************************************************************************)
(* Properties.                                                             *)
(***************************************************************************)
Served(method, rule) ==
    pc = "serving" /\ nreq > 0 /\ req.method = method /\ req.rule = rule

\* What the configured sanitizer makes of one prediction: the prediction
\* itself when there is no sanitizer.
Sanitized(prediction) ==
    IF app.sanitizer.none
    THEN Return(prediction)
    ELSE call_sanitizer(app.sanitizer.v, prediction)

PredictAnswer(prediction) ==
    /\ resp.status = 200
    /\ resp.mimetype = "application/json"
    /\ ~Sanitized(prediction).raised
    /\ loads(resp.body) = Sanitized(prediction).value
    /\ calls = IF app.sanitizer.none
               THEN <<"predict_json">>
               ELSE <<"predict_json", "sanitizer">>

\* C1 as claimed: whenever the predictor does not raise on the body d of a
\* POST /predict, the answer is 200 with the JSON of predict_json(d), passed
\* through the sanitizer when one is configured, after one call of
\* predict_json and at most one, later, call of the sanitizer.
C1_PredictAnswersWheneverPredictorReturns ==
    Served("POST", "/predict") =>
        LET predicted == predict_json(app.predictor, loads(req.body))
        IN  ~predicted.raised => PredictAnswer(predicted.value)

\* C1, amended: the same, whenever neither the predictor raises on d nor the
\* sanitizer on predict_json(d).
C1_PredictAnswers ==
    Served("POST", "/predict") =>
        LET predicted == predict_json(app.predictor, loads(req.body))
        IN  (~predicted.raised /\ ~Sanitized(predicted.value).raised)
                => PredictAnswer(predicted.value)

\* The sanitizer dropping "r" turns the stub's {"r": "x"} into {}.
C1_Witness ==
    /\ Served("POST", "/predict")
    /\ app.predictor = "stub"
    /\ ~app.sanitizer.none
    /\ app.sanitizer.v = "drop_r"
    /\ req.body = dumps("a" :> "x")
    /\ loads(req.body) = ("a" :> "x")
    /\ resp.status = 200
    /\ resp.body = <<"{", "}">>
    /\ calls = <<"predict_json", "sanitizer">>

BatchAnswer(predictions) ==
    /\ resp.status = 200
    /\ resp.mimetype = "application/json"
    /\ Len(loads_list(resp.body)) = Len(predictions)
    /\ \A i \in DOMAIN predictions :
          /\ ~Sanitized(predictions[i]).raised
          /\ loads_list(resp.body)[i] = Sanitized(predictions[i]).value

\* C2 as claimed: whenever the predictor does not raise on the array of a
\* POST /predict_batch, the answer is 200 with a JSON array as long as
\* predict_batch_json's, whose i-th element is the i-th prediction, passed
\* through the sanitizer when one is configured.
C2_BatchAnswersWheneverPredictorReturns ==
    Served("POST", "/predict_batch") =>
        LET predicted == predict_batch_json(app.predictor, loads_list(req.body))
        IN  ~predicted.raised => BatchAnswer(predicted.value)

\* C2, amended: the same, whenever neither the predictor raises on the array
\* nor the sanitizer on any one of the predictions.
C2_BatchAnswers ==
    Served("POST", "/predict_batch") =>
        LET predicted == predict_batch_json(app.predictor, loads_list(req.body))
        IN  (/\ ~predicted.raised
             /\ \A i \in DOMAIN predicted.value :
                   ~Sanitized(predicted.value[i]).raised)
                => BatchAnswer(predicted.value)

\* [{"a": "x"}, {"a": "y"}] is answered [{"r": "x"}, {"r": "y"}].
C2_Witness ==
    /\ Served("POST", "/predict_batch")
    /\ app.predictor = "stub"
    /\ app.sanitizer.none
    /\ req.body = dumps_list(<<"a" :> "x", "a" :> "y">>)
    /\ resp.status = 200
    /\ resp.body = <<"[", "{", "r", ":", "x", "}", ",", "{", "r", ":", "y", "}", "]">>

\* C3: OPTIONS /predict and OPTIONS /predict_batch are answered 200 with an
\* empty body, whatever the configuration and the request body, and without
\* a call of the predictor or the sanitizer.
C3_OptionsEmpty ==
    (Served("OPTIONS", "/predict") \/ Served("OPTIONS", "/predict_batch")) =>
        /\ resp.status = 200
        /\ resp.body = << >>
        /\ exc = ""
        /\ calls = << >>

\* A preflight with a body, to an application with a static directory, field
\* names and a sanitizer.
C3_Witness ==
    /\ Served("OPTIONS", "/predict")
    /\ req.body = dumps("a" :> "x")
    /\ ~app.static_dir.none
    /\ ~app.field_names.none
    /\ ~app.sanitizer.none
    /\ resp.status = 200
    /\ resp.body = << >>

\* The ids of the text inputs of a page, and the names in the field list of
\* its script, both in page order.
RECURSIVE Following(_, _)
Following(page, token) ==
    IF Len(page) < 2 THEN << >>
    ELSE (IF Head(page) = token THEN <<page[2]>> ELSE << >>)
         \o Following(Tail(page), token)

InputIds(page) == Following(page, "<input type=text id=")

ScriptFieldList(page) ==
    LET from == CHOOSE i \in DOMAIN page : page[i] = "var quotedFieldList ="
        to == CHOOSE i \in DOMAIN page : i > from /\ page[i] = ";"
    IN  SelectSeq(SubSeq(page, from + 1, to - 1),
                  LAMBDA t : t \notin {"[", "]", ","})

\* C4: with field names (at least one) and no static directory, GET / is
\* answered 200 with a page whose text inputs are, in order, one per field
\* name given, with id input-<field_name>, and whose script lists the same
\* names in the same order.
C4_FormFields ==
    (/\ Served("GET", "/")
     /\ app.static_dir.none
     /\ ~app.field_names.none
     /\ app.field_names.v # << >>) =>
        LET names == app.field_names.v
        IN  /\ resp.status = 200
            /\ exc = ""
            /\ InputIds(resp.body) = [i \in DOMAIN names |-> "input-" \o names[i]]
            /\ ScriptFieldList(resp.body)
                   = [i \in DOMAIN names |-> "'" \o names[i] \o "'"]

\* The page for the fields b, a.
C4_Witness ==
    /\ Served("GET", "/")
    /\ app.static_dir.none
    /\ ~app.field_names.none
    /\ app.field_names.v = <<"b", "a">>
    /\ resp.status = 200
    /\ InputIds(resp.body) = <<"input-b", "input-a">>

\* C5 as claimed: with an existing static directory, GET / is answered with
\* exactly the content of its index.html, whatever field names and title
\* were given, and never with the built-in form.
C5_IndexServedFromAnyStaticDir ==
    (Served("GET", "/") /\ ~app.static_dir.none) =>
        /\ isfile(join(app.static_dir.v, "index.html"))
        /\ resp.status = 200
        /\ resp.mimetype = "file"
        /\ resp.body = <<Files[join(app.static_dir.v, "index.html")]>>

\* C5, amended: with an existing static directory that holds an index.html,
\* GET / is answered with exactly the content of that file; with one that
\* holds none, the request fails (no 200).  In neither case is the built-in
\* form rendered.
C5_IndexServed ==
    (Served("GET", "/") /\ ~app.static_dir.none) =>
        /\ resp.mimetype # "text/html" \/ resp.status # 200
        /\ IF isfile(join(app.static_dir.v, "index.html"))
           THEN /\ resp.status = 200
                /\ resp.mimetype = "file"
                /\ resp.body = <<Files[join(app.static_dir.v, "index.html")]>>
           ELSE resp.status # 200 /\ exc # ""

\* index.html served although field names and another title were given.
C5_Witness ==
    /\ Served("GET", "/")
    /\ ~app.static_dir.none
    /\ ~app.field_names.none
    /\ app.field_names.v # << >>
    /\ app.title = "My Demo"
    /\ resp.status = 200
    /\ resp.body = <<"custom front end">>

\* C6 as claimed: GET /<path> without a static directory is answered 404
\* with a JSON body whose message is "static_dir not specified", the
\* serialized ServerError; with a static directory the file of that name is
\* served and no ServerError is raised.
C6_StaticServedOrRefused ==
    Served("GET", "/<path:path>") =>
        IF app.static_dir.none
        THEN /\ exc = "ServerError"
             /\ resp.status = 404
             /\ resp.mimetype = "application/json"
             /\ loads(resp.body)["message"] = "static_dir not specified"
        ELSE /\ exc = ""
             /\ isfile(join(app.static_dir.v, req.path))
             /\ resp.status = 200
             /\ resp.body = <<Files[join(app.static_dir.v, req.path)]>>

\* C6, amended: as claimed without a static directory; with one, the file
\* is served when the directory holds it and the framework's 404 is the
\* answer when it does not, and in neither case is a ServerError raised.
C6_StaticProxy ==
    Served("GET", "/<path:path>") =>
        IF app.static_dir.none
        THEN /\ exc = "ServerError"
             /\ resp.status = 404
             /\ resp.mimetype = "application/json"
             /\ loads(resp.body)["message"] = "static_dir not specified"
        ELSE /\ exc # "ServerError"
             /\ resp.mimetype # "application/json"
             /\ IF isfile(join(app.static_dir.v, req.path))
                THEN /\ exc = ""
                     /\ resp.status = 200
                     /\ resp.body = <<Files[join(app.static_dir.v, req.path)]>>
                ELSE resp.status = 404

\* GET /missing.js without a static directory.
C6_Witness ==
    /\ Served("GET", "/<path:path>")
    /\ req.path = "missing.js"
    /\ app.static_dir.none
    /\ resp.status = 404
    /\ "message" \in DOMAIN loads(resp.body)

BadStaticDir == ~args.static_dir.none /\ ~exists(abspath(args.static_dir.v))

\* C7: with a static directory that does not exist, the process never binds
\* its socket, never returns from make_app and never serves a request, and
\* every run of serve ends in an exit with a non-zero status.
C7_MissingStaticDirAborts ==
    /\ [](BadStaticDir =>
            /\ socket = "unbound"
            /\ pc \notin {"built", "serving"}
            /\ nreq = 0
            /\ (pc = "exited" => exit_code # 0))
    /\ ((BadStaticDir /\ args.entry = "serve") ~> (pc = "exited" /\ exit_code # 0))

\* serve has exited from make_app, with status 255, the socket unbound.
C7_Witness ==
    /\ BadStaticDir
    /\ args.entry = "serve"
    /\ args.load_ok
    /\ pc = "exited"
    /\ exit_code = 255
    /\ socket = "unbound"
    /\ Len(log) = 1
    /\ log[1].level = "ERROR"

PredictionLines == SelectSeq(log, LAMBDA l : l.level = "INFO" /\ l.msg = "prediction")

\* C8 as claimed: after any sequence of requests there are as many
\* prediction log lines as POST /predict calls were made.
C8_OneLinePerPredictCall == Len(PredictionLines) = posts

\* C8, amended: a POST /predict call that returns a prediction appends exactly
\* one line, with the input and the sanitized output of that call; a POST
\* /predict call that raises, an OPTIONS request and a request to any other
\* endpoint append none; and no request changes anything else that persists.
C8_LogLines ==
    [][pc = "serving" =>
        /\ IF req'.rule = "/predict" /\ req'.method = "POST" /\ exc' = ""
           THEN log' = Append(log, [level |-> "INFO", msg |-> "prediction",
                                    inputs |-> req'.body, outputs |-> resp'.body])
           ELSE log' = log
        /\ UNCHANGED <<args, pc, app, exit_code, stdout, socket>>]_vars

\* Two POST /predict calls, the first raised, the second logged sanitized.
C8_Witness ==
    /\ Served("POST", "/predict")
    /\ ~app.sanitizer.none
    /\ posts = 2
    /\ Len(PredictionLines) = 1
    /\ log[Len(log)].inputs = req.body
    /\ log[Len(log)].outputs = resp.body
    /\ resp.body # dumps(predict_json(app.predictor, loads(req.body)).value)

Neither == args.static_dir.none /\ args.field_names.none

NoticeCount == Len(SelectSeq(stdout, LAMBDA l : l = NeitherNotice))

\* C9: with neither a static directory nor field names, make_app does not
\* end the process (only a model that fails to load does), the notice is
\* printed exactly once, when the application is built, the server comes to
\* serve, POST /predict and POST /predict_batch are answered as with any
\* other configuration, and GET / fails instead of returning a page.
C9_NeitherStillServes ==
    /\ [](Neither =>
            /\ (pc = "exited" => ~args.load_ok)
            /\ NoticeCount = (IF pc \in {"built", "serving"} THEN 1 ELSE 0)
            /\ (Served("GET", "/") => resp.status # 200 /\ exc # "")
            /\ C1_PredictAnswers
            /\ C2_BatchAnswers)
    /\ ((Neither /\ args.load_ok) ~> (pc = "serving"))

\* serve is listening, has answered a prediction and now fails GET /.
C9_Witness ==
    /\ Neither
    /\ args.entry = "serve"
    /\ socket = "listening"
    /\ Served("GET", "/")
    /\ resp.status = 500
    /\ Len(PredictionLines) = 1
    /\ NoticeCount = 1

CallCount(name) == Len(SelectSeq(calls, LAMBDA c : c = name))

\* Whether the response carries JSON predictions.
AnswersPrediction == resp.status = 200 \/ resp.mimetype = "application/json"

BatchFails ==
    LET predicted == predict_batch_json(app.predictor, loads_list(req.body))
    IN  \/ predicted.raised
        \/ \E i \in DOMAIN predicted.value : Sanitized(predicted.value[i]).raised

\* C11: a POST /predict_batch on which predict_batch_json raises, or the
\* sanitizer raises on one of the predictions, ends in an exception and the
\* framework's error response, with no array of predictions, full or
\* partial, after a single call of predict_batch_json; a POST /predict on
\* which the predictor raises has no prediction in its response, called the
\* predictor once and left no log line; and no request that raises writes to
\* the log.
C11_NoPartialFailure ==
    /\ []((Served("POST", "/predict_batch") /\ BatchFails) =>
            /\ exc # ""
            /\ ~AnswersPrediction
            /\ resp = FrameworkError(500, "Internal Server Error")
            /\ CallCount("predict_batch_json") = 1)
    /\ []((/\ Served("POST", "/predict")
           /\ predict_json(app.predictor, loads(req.body)).raised) =>
            /\ exc # ""
            /\ ~AnswersPrediction
            /\ calls = <<"predict_json">>
            /\ \A i \in DOMAIN log : log[i].inputs # req.body)
    /\ [][(pc = "serving" /\ exc' # "") => log' = log]_vars

\* The sanitizer raised on the second of two predictions.
C11_Witness ==
    /\ Served("POST", "/predict_batch")
    /\ app.predictor = "stub"
    /\ ~app.sanitizer.none
    /\ app.sanitizer.v = "strict"
    /\ req.body = dumps_list(<<"a" :> "x", "a" :> "y">>)
    /\ exc = "KeyError"
    /\ resp.status = 500
    /\ calls = <<"predict_batch_json", "sanitizer", "sanitizer">>

====
